---- MODULE Spec2Model ----
(***************************************************************************)
(* Job tracker of the Wells MCP HyperExecute server.                       *)
(*                                                                         *)
(* The server launches the HyperExecute CLI and infers the job's progress  *)
(* from hyperexecute-cli.log.  Two tool handlers drive the tracker:        *)
(*   run-tests-on-hyperexecute      (run)                                  *)
(*   analyze-hyperexecute-cli-run   (advance)                              *)
(* Both are async functions.  An action of this model is one synchronous   *)
(* segment of a handler: the code between two awaits, which the event loop *)
(* runs to completion.  The polling watchers (waitForLogMessage) are timer *)
(* callbacks; every tick is an action.  The CLI is a separate process that *)
(* appends to the log at any moment.                                       *)
(*                                                                         *)
(* Text is modelled as a sequence of atoms (words, separators, escape      *)
(* sequences).  A string of the program is a sequence of atoms, string     *)
(* concatenation is \o and the empty string is << >>.                      *)
(*                                                                         *)
(* Environment.  The CLI writes its log into the working directory; only   *)
(* in SpecFiles does a subdirectory hold a second hyperexecute-cli.log.    *)
(* A read of the log either succeeds or throws (busy, unreadable): both    *)
(* outcomes are taken at every read.                                       *)
(* Node.js gives no guarantee on the order in which timers                 *)
(* that are due run their callbacks, so the ticks of concurrent watchers   *)
(* are taken in every order.  In Spec the client calls the tools one after *)
(* the other: a handler starts only when no handler is in flight.          *)
(***************************************************************************)
EXTENDS Integers, Sequences, FiniteSets, TLC

(***************************************************************************)
(* Bounds of the model.                                                    *)
(***************************************************************************)
\* number of lines the CLI writes into one log file
MaxLogLen == 5
\* number of run() calls in a behaviour
MaxRuns == 1
\* number of polls of one watcher that are followed one by one
MaxPolls == 1
\* number of lines of a snapshot handed to the link extractor
MaxLinkLines == 3
\* number of lines the CLI writes while calls overlap
MaxOverlapLogLen == 2
\* number of calls that start while another call is in flight
MaxOverlaps == 1

(***************************************************************************)
(* Text atoms.                                                             *)
(***************************************************************************)
ESC_UL == "\\u001b[4m"
ESC_RESET == "\\u001b[0m"
NL == "\\n"
SP == " "

AnsiAtoms == {ESC_UL, ESC_RESET}
SpaceAtoms == {SP, NL}

\* String.prototype.toLowerCase on one atom
ToLowerCase(a) ==
    CASE a = "Job Link" -> "job link"
      [] a = "Invalid user/key credentials" -> "invalid user/key credentials"
      [] a = "Project not found" -> "project not found"
      [] a = "Unable to parse hyperexecute.yaml" -> "unable to parse hyperexecute.yaml"
      [] a = "Invalid yaml content" -> "invalid yaml content"
      [] a = "Unable to find hyperexecute config file" -> "unable to find hyperexecute config file"
      [] a = "Creating archive" -> "creating archive"
      [] a = "Archive location" -> "archive location"
      [] a = "Connection to hyperexecute server" -> "connection to hyperexecute server"
      [] a = "Failed to generate" -> "failed to generate"
      [] OTHER -> a

(***************************************************************************)
(* The lines the CLI can write, in the order its pipeline emits them.      *)
(* Any line may be missing from a log.                                     *)
(***************************************************************************)
LineKinds ==
    << "trigger", "invalidCreds", "projectNotFound",
       "yamlNotFound", "creating", "location", "connection",
       "linkNoUrl", "linkUrl", "finished" >>

LineText(k) ==
    CASE k = "trigger" -> << "cmd/bin", NL >>
      [] k = "invalidCreds" -> << "Invalid user/key credentials", NL >>
      [] k = "projectNotFound" -> << "Project not found", NL >>
      [] k = "yamlNotFound" -> << "Unable to find hyperexecute config file", NL >>
      [] k = "creating" -> << "Creating archive", NL >>
      [] k = "location" -> << "Archive location", NL >>
      [] k = "connection" -> << "Connection to hyperexecute server", NL >>
      [] k = "linkNoUrl" -> << "Failed to generate", SP, "job link", NL >>
      [] k = "linkUrl" -> << "Job Link", ":", SP, ESC_UL, "https://",
                              "hyperexecute.lambdatest.com/hyperexecute/task?jobId=abc",
                              ESC_RESET, NL >>
      [] k = "finished" -> << "goroutines have finished", NL >>
      \* further lines a log may hold: the trace id message on its own, a
      \* label without a URL, a plain label without white space, a styled
      \* label with another URL
      [] k = "traceId" -> << "Generating TraceID for tracking request", NL >>
      [] k = "labelOnly" -> << "Job Link", ":", SP, "pending", NL >>
      [] k = "linkPlain" -> << "Job Link", ":", "https://",
                                "hyperexecute.lambdatest.com/hyperexecute/task?jobId=plain",
                                NL >>
      [] k = "linkOther" -> << ESC_UL, "Job Link", ":", ESC_RESET, SP, SP, ESC_UL,
                                "http://", "hyperexecute.lambdatest.com/hyperexecute/",
                                ESC_RESET, "task?jobId=other", SP, "ready", NL >>

RECURSIVE Contents(_)
\* fs.readFileSync: the text of the whole file
Contents(lines) ==
    IF lines = << >> THEN << >>
    ELSE LineText(Head(lines)) \o Contents(Tail(lines))

\* contents.toLowerCase().includes(searchString.toLowerCase())
Includes(contents, searchString) ==
    \E i \in 1..Len(contents) : ToLowerCase(contents[i]) = ToLowerCase(searchString)


(***************************************************************************)
(* Job Link Extractor (getJobLink).                                        *)
(***************************************************************************)
NotFoundText == << "Job link not found or not yet generated" >>

\* the content left as it is
StripAnsiNone(content) == content

\* content.replace(/\u001b\[[0-9;]*m/g, "")
StripAnsi(content) == SelectSeq(content, LAMBDA a : a \notin AnsiAtoms)

RECURSIVE SkipSpaces(_, _)
\* \s* : the first position at or after i that holds no white space
SkipSpaces(s, i) ==
    IF i <= Len(s) /\ s[i] \in SpaceAtoms THEN SkipSpaces(s, i + 1) ELSE i

RECURSIVE RunEnd(_, _)
\* \S+ : the last position of the run of non-space atoms that starts at i
RunEnd(s, i) ==
    IF i + 1 <= Len(s) /\ s[i + 1] \notin SpaceAtoms THEN RunEnd(s, i + 1) ELSE i

\* /Job Link:\s*(https?:\/\/\S+)/ matches at position i
LinkMatchAt(s, i) ==
    /\ i + 1 <= Len(s)
    /\ s[i] = "Job Link"
    /\ s[i + 1] = ":"
    /\ LET j == SkipSpaces(s, i + 2)
       IN /\ j + 1 <= Len(s)
          /\ s[j] \in {"http://", "https://"}
          /\ s[j + 1] \notin SpaceAtoms

\* the captured group of the last match instead of the first
LinkMatchLast(s) ==
    IF \E i \in 1..Len(s) : LinkMatchAt(s, i)
    THEN LET i == CHOOSE k \in 1..Len(s) :
                      /\ LinkMatchAt(s, k)
                      /\ \A m \in (k + 1)..Len(s) : ~LinkMatchAt(s, m)
             j == SkipSpaces(s, i + 2)
         IN SubSeq(s, j, RunEnd(s, j + 1))
    ELSE << >>

\* cleanContent.match(...)?.[1] : the captured group of the first match,
\* << >> (undefined) when there is no match
LinkMatch(s) ==
    IF \E i \in 1..Len(s) : LinkMatchAt(s, i)
    THEN LET i == CHOOSE k \in 1..Len(s) :
                      /\ LinkMatchAt(s, k)
                      /\ \A m \in 1..(k - 1) : ~LinkMatchAt(s, m)
             j == SkipSpaces(s, i + 2)
         IN SubSeq(s, j, RunEnd(s, j + 1))
    ELSE << >>

\* getJobLink(): exists = findFileAbsolutePath found the log,
\* readOk = getFileContent did not throw
getJobLink(exists, lines, readOk) ==
    IF ~exists \/ ~readOk
    THEN NotFoundText
    ELSE LET jobLink == LinkMatch(StripAnsi(Contents(lines)))
         IN IF jobLink = << >> THEN NotFoundText ELSE jobLink

(***************************************************************************)
(* The log checks of cli-log.ts: search string, timeout and interval.      *)
(***************************************************************************)
LogCheck(name) ==
    CASE name = "isJobTriggered" ->
            [searchString |-> "cmd/bin", timeoutMs |-> 10000, intervalMs |-> 1000]
      [] name = "isInvalidCredentials" ->
            [searchString |-> "Invalid user/key credentials", timeoutMs |-> 30000, intervalMs |-> 2000]
      [] name = "isProjectNotFound" ->
            [searchString |-> "Project not found", timeoutMs |-> 30000, intervalMs |-> 2000]
      [] name = "isYAMLParseError" ->
            [searchString |-> "Unable to parse hyperexecute.yaml", timeoutMs |-> 30000, intervalMs |-> 2000]
      [] name = "isYAMLConfigError" ->
            [searchString |-> "Invalid yaml content", timeoutMs |-> 30000, intervalMs |-> 2000]
      [] name = "isUploadArchiveStarted" ->
            [searchString |-> "Creating archive", timeoutMs |-> 30000, intervalMs |-> 2000]
      [] name = "isUploadArchiveDone" ->
            [searchString |-> "Archive location", timeoutMs |-> 300000, intervalMs |-> 10000]
      [] name = "isServerConnectionStarted" ->
            [searchString |-> "Connection to hyperexecute server", timeoutMs |-> 30000, intervalMs |-> 2000]
      [] name = "isJobLinkGenerated" ->
            [searchString |-> "Job Link", timeoutMs |-> 30000, intervalMs |-> 5000]
      [] name = "isJobTrackStopped" ->
            [searchString |-> "goroutines have finished", timeoutMs |-> 5000, intervalMs |-> 1000]

\* detectFirstCLIEvent: the log checks of the race, in declaration order
logChecks ==
    << [fn |-> "isInvalidCredentials", type |-> "InvalidCredentials"],
       [fn |-> "isProjectNotFound", type |-> "ProjectNotFound"],
       [fn |-> "isYAMLParseError", type |-> "YAMLParseError"],
       [fn |-> "isYAMLConfigError", type |-> "YAMLConfigError"] >>


(***************************************************************************)
(* State.                                                                  *)
(***************************************************************************)
VARIABLES
    tracker,    \* the fields of HyperexecuteServer that track the job
    logExists,  \* hyperexecute-cli.log exists
    log,        \* the lines of hyperexecute-cli.log
    pc,         \* the await at which the handler in flight is suspended
    stepIdx,    \* index of the jobSteps entry whose check is awaited
    watchers,   \* the waitForLogMessage calls in flight
    firstResult,\* settlement of the Promise.race of detectFirstCLIEvent
    resp,       \* outcome of the last completed handler call
    call,       \* record of the call in flight or last completed (history)
    runs,       \* number of run() calls so far
    other,      \* a second handler call in flight: its pc, stepIdx, watchers,
                \* firstResult and call while the event loop serves the first
    nested      \* a hyperexecute-cli.log in a subdirectory of the working
                \* directory: whether it exists, whether the directory listing
                \* reaches it before the file of the working directory, its lines

vars == << tracker, logExists, log, pc, stepIdx, watchers, firstResult, resp, call, runs, other, nested >>

Slots == 1..4

FlagNames ==
    { "jobStarted", "noError", "uploadStarted", "uploadDone",
      "serverConnected", "jobLink", "jobDone" }

\* the field initialisers of the class
InitTracker ==
    [ jobStarted |-> FALSE, noError |-> FALSE, uploadStarted |-> FALSE,
      uploadDone |-> FALSE, serverConnected |-> FALSE, jobLink |-> FALSE,
      jobDone |-> FALSE, jobExecutionLink |-> << >> ]

\* the reset with one flag too few: Array(6).fill(false)
ResetFlagsSix(t) ==
    [ t EXCEPT !.jobStarted = FALSE, !.noError = FALSE, !.uploadStarted = FALSE,
               !.uploadDone = FALSE, !.serverConnected = FALSE, !.jobLink = FALSE ]

\* [this.jobStarted, ..., this.jobDone] = Array(7).fill(false)
ResetFlags(t) ==
    [ t EXCEPT !.jobStarted = FALSE, !.noError = FALSE, !.uploadStarted = FALSE,
               !.uploadDone = FALSE, !.serverConnected = FALSE, !.jobLink = FALSE,
               !.jobDone = FALSE ]

OffWatcher ==
    [ status |-> "off", check |-> "isJobTriggered", elapsed |-> 0, due |-> 0,
      missing |-> FALSE, file |-> "null" ]

\* no second log file
NoNested == [ exists |-> FALSE, first |-> FALSE, lines |-> << >> ]

\* fileOps.findFileAbsolutePath('.', 'hyperexecute-cli.log'): the first match
\* of the recursive walk in the order of the directory listing, null when
\* the tree holds no such file
findFileAbsolutePath ==
    IF nested.exists /\ (nested.first \/ ~logExists) THEN "nested"
    ELSE IF logExists THEN "cwd"
         ELSE "null"

\* fs.existsSync(filePath)
FileExists(filePath) ==
    IF filePath = "nested" THEN nested.exists ELSE filePath = "cwd" /\ logExists

\* the lines that fs.readFileSync(filePath, 'utf-8') returns
FileLines(filePath) == IF filePath = "nested" THEN nested.lines ELSE log

NoWatchers == [ w \in Slots |-> OffWatcher ]

(***************************************************************************)
(* Polling Watcher (waitForLogMessage behind checkLogForMessage).          *)
(***************************************************************************)
\* The call up to its first suspension: without a log file the promise
\* resolves to false at once, otherwise the interval timer is armed.
StartWatcher(name, filePath) ==
    IF filePath = "null"
    THEN [ status |-> "false", check |-> name, elapsed |-> 0, due |-> 0,
           missing |-> TRUE, file |-> "null" ]
    ELSE [ status |-> "polling", check |-> name, elapsed |-> 0,
           due |-> LogCheck(name).intervalMs, missing |-> FALSE, file |-> filePath ]

\* if (Date.now() - start > timeoutMs)
TimedOut(w) == w.elapsed > LogCheck(w.check).timeoutMs

\* the callback with the read before the look at the clock
TickResultReadFirst(w, exists, lines, readOk) ==
    IF exists /\ ~readOk THEN [ w EXCEPT !.status = "false" ]
    ELSE IF exists /\ Includes(Contents(lines), LogCheck(w.check).searchString)
         THEN [ w EXCEPT !.status = "true" ]
         ELSE IF TimedOut(w) THEN [ w EXCEPT !.status = "false" ]
              ELSE [ w EXCEPT !.due = w.due + LogCheck(w.check).intervalMs ]

\* One run of the interval callback.  readOk = FALSE: readFileSync throws,
\* the promise is rejected and checkLogForMessage turns that into false.
TickResult(w, exists, lines, readOk) ==
    IF TimedOut(w) THEN [ w EXCEPT !.status = "false" ]
    ELSE IF exists
         THEN IF ~readOk THEN [ w EXCEPT !.status = "false" ]
              ELSE IF Includes(Contents(lines), LogCheck(w.check).searchString)
                   THEN [ w EXCEPT !.status = "true" ]
                   ELSE [ w EXCEPT !.due = w.due + LogCheck(w.check).intervalMs ]
         ELSE [ w EXCEPT !.due = w.due + LogCheck(w.check).intervalMs ]

Settled(w) == w.status \in {"true", "false"}

\* the value of the promise ignored: settled counts as found
ResultSettled(w) == Settled(w)

Result(w) == w.status = "true"

\* async ({ fn, type }) => (await fn() ? type : null)
RaceEntry(i, w) == IF Result(w) THEN logChecks[i].type ELSE "null"

\* The promise the suspended handler awaits is settled.  Its continuation is
\* a microtask: it runs before the next timer callback.
Ready ==
    IF pc = "adv_race" THEN firstResult # "pending"
    ELSE pc # "idle" /\ pc # "run_wait" /\ Settled(watchers[1])

Tick(i) ==
    /\ ~Ready
    /\ watchers[i].status = "polling"
    /\ watchers[i].elapsed >= watchers[i].due
    /\ \E readOk \in BOOLEAN :
         LET exists == FileExists(watchers[i].file)
             w == TickResult(watchers[i], exists, FileLines(watchers[i].file), readOk)
         IN /\ watchers' = [ watchers EXCEPT ![i] = w ]
            /\ firstResult' =
                 IF pc = "adv_race" /\ firstResult = "pending" /\ Settled(w)
                 THEN RaceEntry(i, w)
                 ELSE firstResult
            /\ call' = [ call EXCEPT
                           !.readLog = @ \/ (~TimedOut(watchers[i]) /\ exists),
                           !.ioError = @ \/ (~TimedOut(watchers[i]) /\ exists /\ ~readOk) ]
    /\ UNCHANGED << tracker, logExists, log, pc, stepIdx, resp, runs, other, nested >>

Min(S) == CHOOSE x \in S : \A y \in S : x <= y

\* the first multiple of the interval that lies beyond the timeout
LastDue(w) ==
    ((LogCheck(w.check).timeoutMs \div LogCheck(w.check).intervalMs) + 1)
        * LogCheck(w.check).intervalMs

\* The watcher has polled MaxPolls times and its next poll finds nothing:
\* the model follows it no further poll by poll.
Fruitless(w) ==
    /\ w.due > MaxPolls * LogCheck(w.check).intervalMs
    /\ ~(FileExists(w.file) /\
           Includes(Contents(FileLines(w.file)), LogCheck(w.check).searchString))

\* Time passes until the next interval timer is due.  A stretch in which
\* every watcher in flight polls in vain (the log does not change in it) is
\* taken in one step, up to the first timer that meets its timeout.
TimePass ==
    LET polling == { i \in Slots : watchers[i].status = "polling" }
        stretch(w) == IF Fruitless(w) THEN LastDue(w) - w.elapsed
                      ELSE w.due - w.elapsed
    IN /\ ~Ready
       /\ polling # {}
       /\ \A i \in polling : watchers[i].elapsed < watchers[i].due
       /\ LET d == Min({ stretch(watchers[i]) : i \in polling })
          IN watchers' = [ i \in Slots |->
                             IF i \in polling
                             THEN LET w == watchers[i]
                                      I == LogCheck(w.check).intervalMs
                                      e == w.elapsed + d
                                  IN [ w EXCEPT !.elapsed = e,
                                                !.due = IF w.due >= e THEN w.due
                                                        ELSE ((e + I - 1) \div I) * I ]
                             ELSE watchers[i] ]
       /\ UNCHANGED << tracker, logExists, log, pc, stepIdx, firstResult, resp, call, runs, other, nested >>

(***************************************************************************)
(* The CLI process.                                                        *)
(***************************************************************************)
Rank(k) == CHOOSE i \in 1..Len(LineKinds) : LineKinds[i] = k

CliAppend ==
    /\ Len(log) < MaxLogLen
    /\ \E i \in 1..Len(LineKinds) :
         /\ (IF log = << >> THEN TRUE ELSE Rank(log[Len(log)]) < i)
         /\ log' = Append(log, LineKinds[i])
    /\ logExists' = TRUE
    /\ UNCHANGED << tracker, pc, stepIdx, watchers, firstResult, resp, call, runs, other, nested >>


(***************************************************************************)
(* Handler plumbing.                                                       *)
(***************************************************************************)
NoResp == [ kind |-> "none", text |-> << >> ]

\* History of a call: the tracker at the start of advance(), the length of
\* the log when the race of detectFirstCLIEvent started, the watchers the
\* call has started, whether it has read the log, whether one of its reads
\* has thrown, the number of the run under which it started, and the last
\* error event an advance() of this run has reported.
NewCall(kind) ==
    [ kind |-> kind, pre |-> IF kind = "advance" THEN tracker ELSE InitTracker,
      preLen |-> 0, started |-> << >>, readLog |-> FALSE, ioError |-> FALSE,
      epoch |-> IF kind = "run" THEN runs + 1 ELSE runs,
      reported |-> IF kind = "advance" THEN call.reported ELSE "null" ]

\* no handler has been called yet
NoCall ==
    [ kind |-> "none", pre |-> InitTracker, preLen |-> 0, started |-> << >>,
      readLog |-> FALSE, ioError |-> FALSE, epoch |-> 0, reported |-> "null" ]

\* no second call is in flight
NoContext ==
    [ pc |-> "idle", stepIdx |-> 0, watchers |-> NoWatchers,
      firstResult |-> "pending", call |-> NoCall, arrivals |-> 0 ]

\* this.rt(message)
rt(message) == [ kind |-> "returned", text |-> message ]

\* the handler without its catch clause: the error leaves the handler
AdvanceCatchRethrow(errorMessage) == [ kind |-> "threw", text |-> errorMessage ]

\* the catch clause of analyze-hyperexecute-cli-run
AdvanceCatch(errorMessage) ==
    rt(<< "Error getting the job link: " >> \o errorMessage \o
       << ". \\n Exiting the user request. Kindly analyze your project manually & try again later!" >>)

\* the catch clause of run-tests-on-hyperexecute
RunCatch(errorMessage) ==
    rt(<< "Error running test in hyperexecute CLI: " >> \o errorMessage)

\* The handler returns: nothing of the call stays in flight.  The timers of
\* the race's other watchers go on polling in the program, but nothing
\* awaits their promises any more, so they are dropped here.
Return(t, c, r) ==
    /\ tracker' = t
    /\ call' = c
    /\ resp' = r
    /\ pc' = "idle"
    /\ stepIdx' = 0
    /\ watchers' = NoWatchers
    /\ firstResult' = "pending"

\* The handler suspends at `await <check>()`.
Await(t, c, label, idx, name) ==
    /\ tracker' = t
    /\ call' = [ c EXCEPT !.started = Append(@, name) ]
    /\ resp' = NoResp
    /\ pc' = label
    /\ stepIdx' = idx
    /\ watchers' = [ NoWatchers EXCEPT ![1] = StartWatcher(name, findFileAbsolutePath) ]
    /\ firstResult' = "pending"

(***************************************************************************)
(* run-tests-on-hyperexecute.                                              *)
(***************************************************************************)
TriggeredText == << "CLI Job triggered successfully" >>
FailedTriggerText(lastCliOutput) ==
    << "Failed to trigger CLI Job. CLI said: " >> \o
    (IF lastCliOutput = << >> THEN << "no output yet" >> ELSE lastCliOutput)

CliOutputs == { << >>, << "cli output" >> }

\* The flags are reset; the log is looked up and deleted; the CLI is
\* launched.  fault: the file lookup ("lookup") or the launch after the
\* deletion ("launch") throws and the catch clause answers.
RunStart ==
    /\ pc = "idle"
    /\ runs < MaxRuns
    /\ runs' = runs + 1
    /\ UNCHANGED << other, nested >>
    /\ \E fault \in {"none", "lookup", "launch"} :
         /\ IF fault = "lookup"
            THEN UNCHANGED << logExists, log >>
            ELSE logExists' = FALSE /\ log' = << >>
         /\ IF fault = "none"
            THEN /\ tracker' = ResetFlags(tracker)
                 /\ call' = NewCall("run")
                 /\ resp' = NoResp
                 /\ pc' = "run_wait"
                 /\ UNCHANGED << stepIdx, watchers, firstResult >>
            ELSE Return(ResetFlags(tracker), NewCall("run"), RunCatch(<< fault >>))

\* runTest's five second delay is over: this.jobStarted = await isJobTriggered()
RunPoll ==
    /\ pc = "run_wait"
    /\ Await(tracker, call, "run_trig", 0, "isJobTriggered")
    /\ UNCHANGED << logExists, log, runs, other, nested >>

RunFinish ==
    /\ pc = "run_trig"
    /\ Ready
    /\ LET t == [ tracker EXCEPT !.jobStarted = Result(watchers[1]) ]
       IN \E lastCliOutput \in CliOutputs :
            Return(t, call, rt(IF t.jobStarted THEN TriggeredText
                               ELSE FailedTriggerText(lastCliOutput)))
    /\ UNCHANGED << logExists, log, runs, other, nested >>

(***************************************************************************)
(* analyze-hyperexecute-cli-run.                                           *)
(***************************************************************************)
NotStartedText == << "Tests not started - Please run the tests in hyperexecute CLI." >>
AdvTriggeredText == << "CLI Job triggered successfully, lets check for the job link." >>
TerminatedText == << "Job link is not generated, but test has been terminated." >>
StillRunningText == << "Job is still running, waiting for job link..." >>
LinkText(link) == << "Job link is generated. Here is the job link: " >> \o link

\* the switch over the detected event
EventMessage(event) ==
    CASE event = "InvalidCredentials" ->
           << "Invalid credentials. Please input the valid hyperexecute credentials and run tests again." >>
      [] event = "ProjectNotFound" ->
           << "Project not found. Please input the valid hyperexecute project name, ID into yaml and run tests again." >>
      [] event = "YAMLParseError" ->
           << "Unable to parse hyperexecute.yaml. Please create a new valid hyperexecute.yaml and run tests again." >>
      [] event = "YAMLConfigError" ->
           << "Invalid yaml content. Please create a new valid hyperexecute.yaml and run tests again." >>
      [] event = "YAMLNotFound" ->
           << "YAML config file not found. Please create a new hyperexecute.yaml file and run tests again." >>
      [] OTHER ->
           << "None of the errors are found, can proceed looking for the job link in cli logs." >>

ErrorEvents ==
    { "InvalidCredentials", "ProjectNotFound", "YAMLParseError", "YAMLConfigError",
      "YAMLNotFound" }

\* the default branch of the switch sets this.noError
NoErrorAfter(event) == event \notin ErrorEvents

jobSteps ==
    << [ flag |-> "uploadStarted", check |-> "isUploadArchiveStarted", onSuccess |-> FALSE,
         message |-> << "Uploading archives started. Please wait for the archives to be uploaded." >> ],
       [ flag |-> "uploadDone", check |-> "isUploadArchiveDone", onSuccess |-> FALSE,
         message |-> << "Uploading archives done. Let's wait for the server connection to be established." >> ],
       [ flag |-> "serverConnected", check |-> "isServerConnectionStarted", onSuccess |-> FALSE,
         message |-> << "Server connection established. Please wait for the job link or at least test to terminate." >> ],
       [ flag |-> "jobLink", check |-> "isJobLinkGenerated", onSuccess |-> TRUE,
         message |-> << >> ] >>

\* the conditions without their look at the stage before
StepConditionNoOrder(i, t) ==
    CASE i = 1 -> ~t.uploadStarted
      [] i = 2 -> ~t.uploadDone
      [] i = 3 -> ~t.serverConnected
      [] i = 4 -> ~t.jobLink

\* the last condition without its `&& !this.jobLink`
StepConditionNoLinkGuard(i, t) ==
    CASE i = 1 -> ~t.uploadStarted
      [] i = 2 -> t.uploadStarted /\ ~t.uploadDone
      [] i = 3 -> t.uploadDone /\ ~t.serverConnected
      [] i = 4 -> t.serverConnected

\* jobSteps[i].condition()
StepCondition(i, t) ==
    CASE i = 1 -> ~t.uploadStarted
      [] i = 2 -> t.uploadStarted /\ ~t.uploadDone
      [] i = 3 -> t.uploadDone /\ ~t.serverConnected
      [] i = 4 -> t.serverConnected /\ ~t.jobLink

\* the first step at or after `from` whose condition holds, 0 if none
NextStep(t, from) ==
    IF \E i \in from..Len(jobSteps) : StepCondition(i, t)
    THEN Min({ i \in from..Len(jobSteps) : StepCondition(i, t) })
    ELSE 0

\* a loop body that never returns on success
StepReturnsNever(result) == FALSE

\* if (result) { ... return ... } : a successful check ends the call
StepReturns(result) == result

\* if (this.jobStarted && !this.jobDone)
LoopGuard(t) == t.jobStarted /\ ~t.jobDone

\* the handler without its `if (!this.jobLink)` block behind the loop
ContinueLoopNoStopCheck(t, c, from, inLoop) ==
    LET i == IF inLoop THEN NextStep(t, from) ELSE 0
    IN IF i # 0
       THEN Await(t, c, "adv_step", i, jobSteps[i].check)
       ELSE Return(t, c, rt(IF t.jobLink THEN LinkText(t.jobExecutionLink)
                            ELSE StillRunningText))

\* The for loop over jobSteps from index `from` on, and the code behind it,
\* up to the next await or return.
ContinueLoop(t, c, from, inLoop) ==
    LET i == IF inLoop THEN NextStep(t, from) ELSE 0
    IN IF i # 0
       THEN Await(t, c, "adv_step", i, jobSteps[i].check)
       ELSE IF ~t.jobLink
            THEN Await(t, c, "adv_done", 0, "isJobTrackStopped")
            ELSE Return(t, c, rt(LinkText(t.jobExecutionLink)))

AdvanceStart ==
    /\ pc = "idle"
    /\ LET c == NewCall("advance")
       IN IF ~tracker.jobStarted
          THEN Await(tracker, c, "adv_trig", 0, "isJobTriggered")
          ELSE IF tracker.jobStarted /\ ~tracker.noError
               THEN /\ tracker' = tracker
                    /\ call' = [ c EXCEPT !.started =
                                   [ i \in 1..Len(logChecks) |-> logChecks[i].fn ],
                                 !.preLen = Len(log) ]
                    /\ resp' = NoResp
                    /\ pc' = "adv_race"
                    /\ stepIdx' = 0
                    /\ watchers' = [ i \in Slots |-> StartWatcher(logChecks[i].fn, findFileAbsolutePath) ]
                    /\ firstResult' = IF findFileAbsolutePath # "null" THEN "pending" ELSE "null"
               ELSE ContinueLoop(tracker, c, 1, LoopGuard(tracker))
    /\ UNCHANGED << logExists, log, runs, other, nested >>

\* this.jobStarted = await cliLog.isJobTriggered()
AdvanceTrigger ==
    /\ pc = "adv_trig"
    /\ Ready
    /\ LET t == [ tracker EXCEPT !.jobStarted = Result(watchers[1]) ]
       IN Return(t, call, IF t.jobStarted THEN rt(AdvTriggeredText)
                          ELSE AdvanceCatch(NotStartedText))
    /\ UNCHANGED << logExists, log, runs, other, nested >>

\* const firstResult = await cliLog.detectFirstCLIEvent()
AdvanceRace ==
    /\ pc = "adv_race"
    /\ Ready
    /\ LET t == IF NoErrorAfter(firstResult)
                THEN [ tracker EXCEPT !.noError = TRUE ]
                ELSE tracker
       IN Return(t, [ call EXCEPT !.reported = IF NoErrorAfter(firstResult) THEN @
                                                 ELSE firstResult ],
                 rt(EventMessage(firstResult)))
    /\ UNCHANGED << logExists, log, runs, other, nested >>

\* const result = await step.check()
AdvanceStep ==
    /\ pc = "adv_step"
    /\ Ready
    /\ LET step == jobSteps[stepIdx]
           result == Result(watchers[1])
           t == [ tracker EXCEPT ![step.flag] = result ]
       IN IF StepReturns(result)
          THEN IF step.onSuccess
               THEN \E readOk \in BOOLEAN :
                      LET found == findFileAbsolutePath # "null"
                          link == getJobLink(found, FileLines(findFileAbsolutePath), readOk)
                      IN Return([ t EXCEPT !.jobExecutionLink = link ],
                                [ call EXCEPT !.readLog = @ \/ found,
                                              !.ioError = @ \/ (found /\ ~readOk) ],
                                rt(LinkText(link)))
               ELSE Return(t, call, rt(step.message))
          ELSE ContinueLoop(t, call, stepIdx + 1, TRUE)
    /\ UNCHANGED << logExists, log, runs, other, nested >>

\* this.jobDone = await cliLog.isJobTrackStopped()
AdvanceDone ==
    /\ pc = "adv_done"
    /\ Ready
    /\ LET t == [ tracker EXCEPT !.jobDone = Result(watchers[1]) ]
       IN Return(t, call, IF t.jobDone THEN AdvanceCatch(TerminatedText)
                          ELSE rt(StillRunningText))
    /\ UNCHANGED << logExists, log, runs, other, nested >>

(***************************************************************************)
(* Specification.                                                          *)
(***************************************************************************)
Init ==
    /\ tracker = InitTracker
    /\ logExists = FALSE
    /\ log = << >>
    /\ pc = "idle"
    /\ stepIdx = 0
    /\ watchers = NoWatchers
    /\ firstResult = "pending"
    /\ resp = NoResp
    /\ call = NoCall
    /\ runs = 0
    /\ other = NoContext
    /\ nested = NoNested

Next ==
    \/ RunStart
    \/ RunPoll
    \/ RunFinish
    \/ AdvanceStart
    \/ AdvanceTrigger
    \/ AdvanceRace
    \/ AdvanceStep
    \/ AdvanceDone
    \/ \E i \in Slots : Tick(i)
    \/ TimePass
    \/ CliAppend

Spec == Init /\ [][Next]_vars


(***************************************************************************)
(* Properties.                                                             *)
(***************************************************************************)
InLog(line) == \E i \in 1..Len(log) : log[i] = line

AdvanceReturned == pc = "idle" /\ call.kind = "advance"
RunReturned == pc = "idle" /\ call.kind = "run"

\* the milestone flags that the call in flight or last completed has raised
Raised == { f \in FlagNames : ~call.pre[f] /\ tracker[f] }

\* C1 (monotonicity): in every step that is not the start of run(), a
\* milestone flag that is true stays true.
C1_FlagsMonotonic ==
    [][ runs' = runs => \A f \in FlagNames : tracker[f] => tracker'[f] ]_vars

\* C2 (idempotence at LINK_FOUND): an advance() called with jobLink true
\* never suspends, and when it has returned it has started no watcher, has
\* not read the log, has changed no field of the tracker and has answered
\* with the cached link.
C2_LinkFoundIdempotent ==
    (call.kind = "advance" /\ call.pre.jobLink) =>
        /\ pc = "idle"
        /\ call.started = << >>
        /\ ~call.readLog
        /\ tracker = call.pre
        /\ resp = rt(LinkText(call.pre.jobExecutionLink))

C2_Witness ==
    /\ AdvanceReturned
    /\ call.pre.jobLink
    /\ call.pre.jobExecutionLink \notin { << >>, NotFoundText }
    /\ resp.text = LinkText(tracker.jobExecutionLink)

\* C3 (advance always answers): a completed advance() has returned a
\* non-empty message and has not thrown, whatever the log held; and a
\* suspended advance() awaits a watcher that is settled or still polling.
C3_AdvanceAlwaysAnswers ==
    /\ AdvanceReturned => (resp.kind = "returned" /\ resp.text # << >>)
    /\ (call.kind = "advance" /\ pc # "idle") =>
          (Ready \/ \E i \in Slots : watchers[i].status = "polling")

\* the error thrown inside the handler came back as a message; the log is missing
C3_Witness ==
    /\ AdvanceReturned
    /\ ~logExists
    /\ resp = rt(<< "Error getting the job link: " >> \o NotStartedText \o
                 << ". \\n Exiting the user request. Kindly analyze your project manually & try again later!" >>)

\* C4 (one stage per call): one advance() raises at most one milestone flag.
C4_AtMostOneStage ==
    call.kind = "advance" => Cardinality(Raised) <= 1

\* the call raised uploadStarted alone although the log held every later milestone
C4_Witness ==
    /\ AdvanceReturned
    /\ Raised = { "uploadStarted" }
    /\ call.readLog
    /\ InLog("creating") /\ InLog("location") /\ InLog("connection") /\ InLog("linkUrl")
    /\ ~tracker.uploadDone

AllFlagsFalse == \A f \in FlagNames : ~tracker[f]

\* C5 (run resets): while run() is launching the CLI and polling, every flag
\* is false; when run() returns, jobStarted is the result of its one trigger
\* poll and every other flag is false.
C5_RunResets ==
    /\ [](pc \in {"run_wait", "run_trig"} => AllFlagsFalse)
    /\ [](RunReturned => /\ \A f \in FlagNames \ {"jobStarted"} : ~tracker[f]
                         /\ Len(call.started) <= 1)
    /\ [][ (pc = "run_trig" /\ pc' = "idle") =>
              /\ tracker'.jobStarted = Result(watchers[1])
              /\ call'.started = << "isJobTriggered" >> ]_vars

\* run() was called after a link had been found, and its poll found the trigger
C5_Witness ==
    /\ RunReturned
    /\ tracker.jobExecutionLink \notin { << >>, NotFoundText }
    /\ tracker.jobStarted
    /\ resp.text = TriggeredText


RemediationTexts == { EventMessage(e) : e \in ErrorEvents }

\* the watchers of the race, in declaration order
RaceChecks == [ i \in 1..Len(logChecks) |-> logChecks[i].fn ]

\* C6 (configuration error stalls the run): an advance() whose race yields
\* an error event returns that event's remediation message, changes no flag
\* and starts no watcher but those of the race; and once an advance() of a
\* run has reported an error, every later advance() of that run reports an
\* error again and leaves noError false.
C6_ErrorStallsRun ==
    [][ (pc = "adv_race" /\ pc' = "idle") =>
          /\ firstResult \in ErrorEvents =>
                /\ resp' = rt(EventMessage(firstResult))
                /\ resp'.text \in RemediationTexts
                /\ tracker' = tracker
                /\ call'.started = RaceChecks
          /\ call.reported \in ErrorEvents =>
                /\ resp'.text \in RemediationTexts
                /\ ~tracker'.noError ]_vars

\* the lines of the log when the race of the call started
LogAtRaceStart == { log[i] : i \in 1..call.preLen }

\* C7 (race correctness): a race started on a log that holds both the
\* invalid-credentials and the project-not-found text settles with
\* InvalidCredentials.
C7_RaceDeterministic ==
    ( /\ pc = "adv_race"
      /\ firstResult # "pending"
      /\ {"invalidCreds", "projectNotFound"} \subseteq LogAtRaceStart )
    => firstResult = "InvalidCredentials"

\* the search term of the watcher is in the log
TermInLog(w) == logExists /\ Includes(Contents(log), LogCheck(w.check).searchString)

\* C8 (timeout lower bound): a watcher whose term has not appeared does not
\* settle false before its timeout has elapsed.
C8_TimeoutLowerBound ==
    \A i \in Slots :
       (watchers[i].status = "false" /\ ~TermInLog(watchers[i]))
       => watchers[i].elapsed >= LogCheck(watchers[i].check).timeoutMs

\* C9 (missing file is "not yet found"): a watcher started without a log
\* file has not settled false when the file appears with the term before the
\* deadline.
C9_MissingFileKeepsPolling ==
    \A i \in Slots :
       ( /\ watchers[i].missing
         /\ TermInLog(watchers[i])
         /\ watchers[i].elapsed <= LogCheck(watchers[i].check).timeoutMs )
       => watchers[i].status # "false"

\* an absolute http(s) URL: a scheme, then a non-empty run without white space
IsAbsoluteUrl(s) ==
    /\ Len(s) >= 2
    /\ s[1] \in {"http://", "https://"}
    /\ \A i \in 1..Len(s) : s[i] \notin SpaceAtoms

\* C10 (cached link is a URL): when no call is in flight and jobLink is
\* true, jobExecutionLink is an absolute URL, not empty and not the
\* extractor's "not found" text.
C10_CachedLinkIsUrl ==
    (pc = "idle" /\ tracker.jobLink) =>
        /\ tracker.jobExecutionLink # << >>
        /\ tracker.jobExecutionLink # NotFoundText
        /\ IsAbsoluteUrl(tracker.jobExecutionLink)


(***************************************************************************)
(* Failure handling and link extraction.                                   *)
(***************************************************************************)
\* the answer of the catch clause: "Error getting the job link: ..."
IsFailureMessage(r) ==
    /\ r.kind = "returned"
    /\ Len(r.text) >= 1
    /\ r.text[1] = "Error getting the job link: "

\* C11 (an I/O error leaves the state alone): an advance() in which a read
\* of the log has thrown returns the failure message and leaves every field
\* of the tracker as it was before the call; and an advance() does not raise
\* jobLink when the extractor finds no link.
C11_IoErrorKeepsState ==
    /\ (AdvanceReturned /\ call.ioError) =>
          (IsFailureMessage(resp) /\ tracker = call.pre)
    /\ (AdvanceReturned /\ "jobLink" \in Raised) =>
          tracker.jobExecutionLink # NotFoundText


(***************************************************************************)
(* The link extractor on its own: getJobLink() applied to every snapshot   *)
(* of up to MaxLinkLines lines.                                            *)
(***************************************************************************)
SnapshotKinds ==
    { "trigger", "linkNoUrl", "labelOnly", "linkUrl", "linkPlain", "linkOther",
      "finished" }

Snapshots ==
    UNION { [ 1..n -> SnapshotKinds ] : n \in 0..MaxLinkLines }

InitLink ==
    /\ tracker = InitTracker
    /\ logExists \in BOOLEAN
    /\ log \in Snapshots
    /\ pc = "idle"
    /\ stepIdx = 0
    /\ watchers = NoWatchers
    /\ firstResult = "pending"
    /\ resp = NoResp
    /\ call = NoCall
    /\ runs = 0
    /\ other = NoContext
    /\ nested = NoNested

\* await cliLog.getJobLink()
GetJobLink ==
    /\ pc = "idle"
    /\ \E readOk \in BOOLEAN :
         /\ resp' = rt(getJobLink(logExists, log, readOk))
         /\ call' = [ call EXCEPT !.kind = "getJobLink",
                                  !.readLog = logExists,
                                  !.ioError = logExists /\ ~readOk ]
    /\ pc' = "extracted"
    /\ UNCHANGED << tracker, logExists, log, stepIdx, watchers, firstResult, runs, other, nested >>

NextLink == GetJobLink

SpecLink == InitLink /\ [][NextLink]_vars

\* the URL a line shows behind its "Job Link:" label, << >> if it shows none
LineUrl(k) ==
    CASE k = "linkUrl" ->
           << "https://", "hyperexecute.lambdatest.com/hyperexecute/task?jobId=abc" >>
      [] k = "linkPlain" ->
           << "https://", "hyperexecute.lambdatest.com/hyperexecute/task?jobId=plain" >>
      [] k = "linkOther" ->
           << "http://", "hyperexecute.lambdatest.com/hyperexecute/", "task?jobId=other" >>
      [] OTHER -> << >>

LabelledLines(lines) == { i \in 1..Len(lines) : LineUrl(lines[i]) # << >> }

\* C12 (link extraction): getJobLink() does not throw; on a readable log it
\* returns the URL of the first line that shows a "Job Link: <url>" label,
\* without its styling sequences, wherever that line stands; it returns the
\* "not found" text when the log is missing, unreadable or shows no label.
C12_ExtractsFirstLink ==
    pc = "extracted" =>
        /\ resp.kind = "returned"
        /\ resp.text =
              IF ~logExists \/ call.ioError \/ LabelledLines(log) = {}
              THEN NotFoundText
              ELSE LineUrl(log[Min(LabelledLines(log))])

\* two labels with different URLs, the first of them behind a line without a
\* URL and not on the last line: the URL of the first comes back unstyled
C12_Witness ==
    /\ pc = "extracted"
    /\ logExists
    /\ log = << "labelOnly", "linkOther", "linkUrl" >>
    /\ resp.text = LineUrl("linkOther")


(***************************************************************************)
(* Scenarios: the log is complete before the first advance() and does not  *)
(* change; the client calls advance() again and again.                     *)
(***************************************************************************)
ScenarioB == << "traceId" >>
ScenarioD == << "trigger", "creating", "location", "connection", "linkUrl" >>
ScenarioE == << "trigger", "finished" >>
ScenarioYamlNotFound == << "trigger", "yamlNotFound" >>

Scenarios == { ScenarioB, ScenarioD, ScenarioE, ScenarioYamlNotFound }

InitScenario ==
    /\ tracker = InitTracker
    /\ logExists = TRUE
    /\ log \in Scenarios
    /\ pc = "idle"
    /\ stepIdx = 0
    /\ watchers = NoWatchers
    /\ firstResult = "pending"
    /\ resp = NoResp
    /\ call = NoCall
    /\ runs = 0
    /\ other = NoContext
    /\ nested = NoNested

NextScenario ==
    \/ AdvanceStart
    \/ AdvanceTrigger
    \/ AdvanceRace
    \/ AdvanceStep
    \/ AdvanceDone
    \/ \E i \in Slots : Tick(i)
    \/ TimePass

SpecScenario == InitScenario /\ [][NextScenario]_vars

\* the stages in their order
StageFlags ==
    << "jobStarted", "noError", "uploadStarted", "uploadDone", "serverConnected",
       "jobLink" >>

\* the first stage the tracker has not reached, 0 when it has reached all
NextStage(t) ==
    IF \E i \in 1..Len(StageFlags) : ~t[StageFlags[i]]
    THEN Min({ i \in 1..Len(StageFlags) : ~t[StageFlags[i]] })
    ELSE 0

\* an advance() has returned and none of its reads of the log has thrown
CleanAdvance == AdvanceReturned /\ ~call.ioError

ScenarioUrl == << "https://", "hyperexecute.lambdatest.com/hyperexecute/task?jobId=abc" >>

\* C13 (scenario D): on the log of scenario D every advance() whose reads
\* succeed raises exactly the next stage of the tracker, and the call that
\* raises jobLink caches and returns the URL of the log without its styling
\* sequences.
C13_ScenarioD ==
    (log = ScenarioD /\ CleanAdvance /\ NextStage(call.pre) # 0) =>
        /\ Raised = { StageFlags[NextStage(call.pre)] }
        /\ \A f \in FlagNames : call.pre[f] => tracker[f]
        /\ NextStage(call.pre) = 6 =>
              /\ tracker.jobExecutionLink = ScenarioUrl
              /\ resp = rt(LinkText(ScenarioUrl))

\* the sixth stage is reached over the five before it and the URL is returned
C13_Witness ==
    /\ log = ScenarioD
    /\ CleanAdvance
    /\ Raised = { "jobLink" }
    /\ \A i \in 1..Len(StageFlags) : tracker[StageFlags[i]]
    /\ resp = rt(LinkText(ScenarioUrl))


\* C14 (scenario E): on the log of scenario E an advance() whose reads
\* succeed reaches jobStarted, the next one noError, and every one after that
\* sets jobDone and returns the failure message that the test has been
\* terminated without a job link; no call raises a later stage.
C14_ScenarioE ==
    (log = ScenarioE /\ CleanAdvance) =>
        /\ NextStage(call.pre) \in {1, 2} =>
              Raised = { StageFlags[NextStage(call.pre)] }
        /\ NextStage(call.pre) = 3 =>
              /\ tracker.jobDone
              /\ resp = AdvanceCatch(TerminatedText)
              /\ IsFailureMessage(resp)
        /\ ~tracker.uploadStarted /\ ~tracker.jobLink

\* the call polled the upload milestone in vain, then found the CLI finished
C14_Witness ==
    /\ log = ScenarioE
    /\ CleanAdvance
    /\ call.started = << "isUploadArchiveStarted", "isJobTrackStopped" >>
    /\ Raised = { "jobDone" }
    /\ resp = AdvanceCatch(TerminatedText)

\* the watchers a call has started, as a set
Started == { call.started[i] : i \in 1..Len(call.started) }

\* C15 (scenario B): on a log that holds the trace id message alone, an
\* advance() of the untouched tracker sets jobStarted and answers that the
\* job is triggered; an advance() of the triggered tracker sets noError,
\* answers that no error was found and has started the poll of the
\* upload-started milestone before it returns.
C15_ScenarioB ==
    (log = ScenarioB /\ CleanAdvance) =>
        /\ NextStage(call.pre) = 1 =>
              /\ tracker.jobStarted
              /\ resp = rt(AdvTriggeredText)
        /\ NextStage(call.pre) = 2 =>
              /\ tracker.noError
              /\ resp = rt(EventMessage("null"))
              /\ "isUploadArchiveStarted" \in Started


\* C16 (YamlNotFound is surfaced): on a log that holds the trigger and the
\* CLI's "Unable to find hyperexecute config file" error, an advance() of the
\* triggered tracker returns the YAMLNotFound remediation message and leaves
\* noError false.
C16_YamlNotFoundSurfaced ==
    (log = ScenarioYamlNotFound /\ CleanAdvance /\ NextStage(call.pre) = 2) =>
        /\ resp = rt(EventMessage("YAMLNotFound"))
        /\ ~tracker.noError


(***************************************************************************)
(* Blocking, the race and re-runs.                                         *)
(***************************************************************************)
\* C17 (one watcher budget per call): an advance() that has waited for a
\* watcher until that watcher's timeout does not go on to start and await a
\* second watcher in the same call.
C17_OneWatcherBudget ==
    [][ ( /\ call.kind = "advance"
          /\ pc \in {"adv_trig", "adv_step", "adv_done"}
          /\ watchers[1].status = "false"
          /\ TimedOut(watchers[1]) )
        => pc' \in {pc, "idle"} ]_vars


\* the watchers of the race that have resolved true
Matched == { i \in Slots : Result(watchers[i]) }

\* C18 (the race waits for all): when detectFirstCLIEvent has settled, every
\* one of its watchers has settled, and its result is the type of the
\* first-declared watcher that resolved true, or null when none did.
C18_RaceWaitsForAll ==
    (pc = "adv_race" /\ firstResult # "pending") =>
        /\ \A i \in Slots : Settled(watchers[i])
        /\ firstResult = IF Matched # {} THEN logChecks[Min(Matched)].type
                         ELSE "null"


(***************************************************************************)
(* Overlapping calls.  The server registers async handlers and nothing     *)
(* keeps a second request from being served while the first is suspended   *)
(* at an await: both calls then work on the same fields of the server.     *)
(* pc, stepIdx, watchers, firstResult and call are those of the call the   *)
(* event loop is serving; `other` holds the same for the second call.      *)
(***************************************************************************)
\* A request arrives while the call in flight is suspended at an await whose
\* promise is not settled: the event loop sets that call aside and is free
\* to start the new request's handler.
Arrive ==
    /\ pc # "idle"
    /\ ~Ready
    /\ other.pc = "idle"
    /\ other.arrivals < MaxOverlaps
    /\ pc' = "idle"
    /\ stepIdx' = 0
    /\ watchers' = NoWatchers
    /\ firstResult' = "pending"
    /\ call' = NoCall
    /\ other' = [ pc |-> pc, stepIdx |-> stepIdx, watchers |-> watchers,
                  firstResult |-> firstResult, call |-> call,
                  arrivals |-> other.arrivals + 1 ]
    /\ UNCHANGED << tracker, logExists, log, resp, runs, nested >>

\* The event loop turns to the other call in flight: the call it served has
\* returned or is suspended at an await whose promise is not settled.
Swap ==
    /\ ~Ready
    /\ other.pc # "idle"
    /\ ~(pc = "idle" /\ call.kind = "none")
    /\ pc' = other.pc
    /\ stepIdx' = other.stepIdx
    /\ watchers' = other.watchers
    /\ firstResult' = other.firstResult
    /\ call' = other.call
    /\ other' = [ pc |-> pc, stepIdx |-> stepIdx, watchers |-> watchers,
                  firstResult |-> firstResult, call |-> call,
                  arrivals |-> other.arrivals ]
    /\ UNCHANGED << tracker, logExists, log, resp, runs, nested >>

\* a handler starts beside a call in flight only for the request that has
\* just arrived
MayStart == other.pc # "idle" => call.kind = "none"

RunArrives == MayStart /\ RunStart

AdvanceArrives == MayStart /\ AdvanceStart

\* the watcher after d more milliseconds
Later(w, d) ==
    LET I == LogCheck(w.check).intervalMs
        e == w.elapsed + d
    IN [ w EXCEPT !.elapsed = e,
                  !.due = IF w.due >= e THEN w.due ELSE ((e + I - 1) \div I) * I ]

\* TimePass for the watchers of both calls: they run on one clock
TimePassAll ==
    LET mine == { i \in Slots : watchers[i].status = "polling" }
        theirs == { i \in Slots : other.watchers[i].status = "polling" }
        stretch(w) == IF Fruitless(w) THEN LastDue(w) - w.elapsed
                      ELSE w.due - w.elapsed
    IN /\ ~Ready
       /\ mine \cup theirs # {}
       /\ \A i \in mine : watchers[i].elapsed < watchers[i].due
       /\ \A i \in theirs : other.watchers[i].elapsed < other.watchers[i].due
       /\ LET d == Min({ stretch(watchers[i]) : i \in mine } \cup
                       { stretch(other.watchers[i]) : i \in theirs })
          IN /\ watchers' = [ i \in Slots |->
                                IF i \in mine THEN Later(watchers[i], d)
                                ELSE watchers[i] ]
             /\ other' = [ other EXCEPT !.watchers =
                             [ i \in Slots |->
                                 IF i \in theirs THEN Later(other.watchers[i], d)
                                 ELSE other.watchers[i] ] ]
       /\ UNCHANGED << tracker, logExists, log, pc, stepIdx, firstResult, resp, call, runs, nested >>

\* the CLI process, followed for its first MaxOverlapLogLen lines
CliAppendFirst ==
    /\ Len(log) < MaxOverlapLogLen
    /\ CliAppend

NextOverlap ==
    \/ RunArrives
    \/ RunPoll
    \/ RunFinish
    \/ AdvanceArrives
    \/ AdvanceTrigger
    \/ AdvanceRace
    \/ AdvanceStep
    \/ AdvanceDone
    \/ \E i \in Slots : Tick(i)
    \/ TimePassAll
    \/ CliAppendFirst
    \/ Arrive
    \/ Swap

SpecOverlap == Init /\ [][NextOverlap]_vars


\* C19 (cancellation on re-run): an advance() that was suspended at a
\* watcher when run() started changes no field of the tracker any more.
C19_StaleWatcherAbandoned ==
    [][ (call.kind = "advance" /\ pc # "idle" /\ call.epoch < runs)
        => tracker' = tracker ]_vars


\* C20 (stage order): whenever no call is in flight, every stage flag that
\* is true has its predecessor true: jobLink => serverConnected =>
\* uploadDone => uploadStarted => noError => jobStarted.
C20_StageOrder ==
    pc = "idle" =>
        \A i \in 2..Len(StageFlags) :
            tracker[StageFlags[i]] => tracker[StageFlags[i - 1]]

\* every stage has been reached by completed calls
C20_Witness ==
    /\ AdvanceReturned
    /\ \A i \in 1..Len(StageFlags) : tracker[StageFlags[i]]
    /\ Raised = { "jobLink" }


(***************************************************************************)
(* The watcher's clock and its reads.                                      *)
(***************************************************************************)
\* C21 (timeout before read): a watcher whose tick comes after its timeout
\* settles false in that tick without a read of the log, also when its term
\* is in the log by then; and no watcher is in flight or has settled later
\* than timeoutMs plus one interval after its start.
C21_TimeoutBeforeRead ==
    /\ [][ \A i \in Slots :
             ( /\ watchers[i].status = "polling"
               /\ TimedOut(watchers[i])
               /\ Settled(watchers'[i]) )
             => /\ watchers'[i].status = "false"
                /\ call'.readLog = call.readLog ]_vars
    /\ [](\A i \in Slots :
             watchers[i].status # "off" =>
                watchers[i].elapsed <= LogCheck(watchers[i].check).timeoutMs
                                         + LogCheck(watchers[i].check).intervalMs)

\* a watcher has answered false one interval after its timeout although
\* its term had been written by then
C21_Witness ==
    \E i \in Slots :
       /\ watchers[i].status = "false"
       /\ ~watchers[i].missing
       /\ watchers[i].elapsed = LogCheck(watchers[i].check).timeoutMs
                                  + LogCheck(watchers[i].check).intervalMs
       /\ TermInLog(watchers[i])
       /\ ~call.ioError


\* C22 (a read error is "not found yet"): the tick in which a read of the
\* log throws leaves its watcher polling; the watcher answers false only
\* when its deadline has passed.
C22_ReadErrorKeepsPolling ==
    [][ \A i \in Slots :
          ( /\ watchers[i].status = "polling"
            /\ ~TimedOut(watchers[i])
            /\ ~call.ioError
            /\ call'.ioError )
          => watchers'[i].status = "polling" ]_vars


(***************************************************************************)
(* The cached link, the order of the polls and the terminal states.        *)
(***************************************************************************)
\* C23 (cached link only with jobLink): whenever jobLink is false,
\* jobExecutionLink is empty, also after run() has reset a run that had
\* found its link.
C23_NoLinkWithoutFlag ==
    ~tracker.jobLink => tracker.jobExecutionLink = << >>


\* the checks of the four milestones of jobSteps
MilestoneChecks == { jobSteps[i].check : i \in 1..Len(jobSteps) }

\* the milestone watchers the call has started, in the order of their start
MilestonesStarted == SelectSeq(call.started, LAMBDA n : n \in MilestoneChecks)

\* C24 (only the first unsatisfied milestone is watched): an advance()
\* called with jobStarted and noError true and with jobLink and jobDone false
\* starts the watcher of the first milestone of jobSteps whose flag is false
\* and the watcher of no other milestone, whatever that watcher answers.
C24_OnlyFirstMilestoneWatched ==
    ( /\ call.kind = "advance"
      /\ call.pre.jobStarted /\ call.pre.noError
      /\ ~call.pre.jobLink /\ ~call.pre.jobDone )
    => MilestonesStarted = << jobSteps[NextStage(call.pre) - 2].check >>

\* the upload-started watcher answered false, the log holds a later
\* milestone, and the call went on to the finished check only
C24_Witness ==
    /\ AdvanceReturned
    /\ ~call.pre.uploadStarted
    /\ call.started = << "isUploadArchiveStarted", "isJobTrackStopped" >>
    /\ InLog("location") /\ InLog("connection")
    /\ ~tracker.uploadDone


\* the search term of the check is in the log
CheckTermInLog(name) ==
    logExists /\ Includes(Contents(log), LogCheck(name).searchString)

NotStartedAnswer ==
    rt(<< "Error getting the job link: " >> \o NotStartedText \o
       << ". \\n Exiting the user request. Kindly analyze your project manually & try again later!" >>)

\* C25 (a fruitless advance changes nothing): an advance() called with
\* jobStarted false on a log without the trigger text answers "Tests not
\* started"; an advance() called past the race, with jobLink false, on a log
\* that holds neither the text of the milestone it awaits nor the finished
\* text answers "Job is still running"; both leave every field of the
\* tracker as it was before the call.
C25_FruitlessAdvanceKeepsState ==
    /\ ( /\ AdvanceReturned
         /\ ~call.pre.jobStarted
         /\ ~CheckTermInLog("isJobTriggered") )
       => (resp = NotStartedAnswer /\ tracker = call.pre)
    /\ ( /\ AdvanceReturned
         /\ call.pre.jobStarted /\ call.pre.noError
         /\ ~call.pre.jobLink /\ ~call.pre.jobDone
         /\ ~CheckTermInLog(jobSteps[NextStage(call.pre) - 2].check)
         /\ ~CheckTermInLog("isJobTrackStopped") )
       => (resp = rt(StillRunningText) /\ tracker = call.pre)

\* the call polled the connection milestone and the finished text in vain
C25_Witness ==
    /\ AdvanceReturned
    /\ call.pre.uploadDone /\ ~call.pre.serverConnected
    /\ logExists
    /\ call.started = << "isServerConnectionStarted", "isJobTrackStopped" >>
    /\ ~InLog("connection") /\ ~InLog("finished")
    /\ resp = rt(StillRunningText)
    /\ tracker = call.pre


\* the log holds the trigger text and the finished text and no error text
FinishedWithoutError ==
    /\ InLog("trigger") /\ InLog("finished")
    /\ ~InLog("invalidCreds") /\ ~InLog("projectNotFound") /\ ~InLog("yamlNotFound")

\* C26 (deadlock prevention): on a log that holds the trigger text and the
\* finished text and no error text, an advance() called with noError true
\* and jobLink false never answers "Job is still running"; it raises the
\* next stage of the tracker, or it sets jobDone and answers that the test
\* has been terminated without a job link.
C26_NoStillRunningOnceFinished ==
    ( /\ FinishedWithoutError
      /\ AdvanceReturned
      /\ call.pre.noError /\ ~call.pre.jobLink )
    => /\ resp # rt(StillRunningText)
       /\ \/ Raised = { StageFlags[NextStage(call.pre)] }
          \/ tracker.jobDone /\ resp = AdvanceCatch(TerminatedText)


\* jobLink and jobDone are never true together
TerminalExclusive == ~(tracker.jobLink /\ tracker.jobDone)

\* an advance() called with jobDone true starts no milestone watcher and
\* changes no flag other than jobDone
TerminatedCallIsInert ==
    (call.kind = "advance" /\ call.pre.jobDone) =>
        /\ MilestonesStarted = << >>
        /\ \A f \in FlagNames \ { "jobDone" } : tracker[f] = call.pre[f]

\* no step other than the start of run() takes jobDone back
TerminatedStays == [][ (tracker.jobDone /\ runs' = runs) => tracker'.jobDone ]_vars

\* C27 (the terminal states are exclusive and absorbing): jobLink and
\* jobDone are never true together, and once jobDone is true it stays true
\* until run() and no advance() raises a milestone flag or starts an upload,
\* connection or link watcher.
C27_TerminalExclusiveAbsorbing ==
    /\ []TerminalExclusive
    /\ []TerminatedCallIsInert
    /\ TerminatedStays


\* C28 (terminated is answered only on a log without a job link): the read
\* of the log that makes an advance() answer that the test has been
\* terminated without a job link, the one in which the isJobTrackStopped
\* watcher finds the finished text, sees no "Job Link: <url>" line.
C28_TerminatedOnlyWithoutLink ==
    [][ ( /\ call.kind = "advance"
          /\ watchers[1].check = "isJobTrackStopped"
          /\ watchers[1].status = "polling"
          /\ watchers'[1].status = "true" )
        => ~InLog("linkUrl") ]_vars


\* C29 (overlapping calls keep the flags monotonic): of two advance() calls
\* of one run that are in flight together, neither writes false over a
\* milestone flag that was false when it started and that the other call
\* has set true since.
C29_OverlapKeepsFlags ==
    [][ \A f \in FlagNames :
          ( /\ call.kind = "advance" /\ other.call.kind = "advance"
            /\ call.epoch = runs /\ other.call.epoch = runs
            /\ runs' = runs
            /\ ~call.pre[f] /\ ~other.call.pre[f]
            /\ tracker[f] )
          => tracker'[f] ]_vars


(***************************************************************************)
(* The directory tree.  run() is called in a working directory in which an *)
(* earlier session has left its log, in the directory itself, in a         *)
(* subdirectory or in both.                                                *)
(***************************************************************************)
\* the logs an earlier session has left behind
OldLogs == { << "trigger" >>, << "trigger", "finished" >> }

InitFiles ==
    /\ tracker = InitTracker
    /\ logExists \in BOOLEAN
    /\ log \in (IF logExists THEN OldLogs ELSE { << >> })
    /\ pc = "idle"
    /\ stepIdx = 0
    /\ watchers = NoWatchers
    /\ firstResult = "pending"
    /\ resp = NoResp
    /\ call = NoCall
    /\ runs = 0
    /\ other = NoContext
    /\ nested \in { NoNested } \cup
                  [ exists : { TRUE }, first : BOOLEAN, lines : OldLogs ]

NextFiles ==
    \/ RunStart
    \/ RunPoll
    \/ RunFinish
    \/ \E i \in Slots : Tick(i)
    \/ TimePass
    \/ CliAppendFirst

SpecFiles == InitFiles /\ [][NextFiles]_vars

\* C30 (no stale log after run()): a watcher of run() that finds its text
\* has found it in the log file of the working directory, the file that
\* run() has deleted and the newly launched CLI has written since, and in
\* no file that was written before the run.
C30_NoStaleLogAfterRun ==
    [][ \A i \in Slots :
          ( /\ call.kind = "run"
            /\ watchers[i].status = "polling"
            /\ watchers'[i].status = "true" )
          => watchers[i].file = "cwd" ]_vars

====
